---------------------------- MODULE Spec2Model ----------------------------
(***************************************************************************)
(* Pseudo-rigid-body model of the compliant bistable four-bar:             *)
(* calculateKinematics, the angle normalisations and the evaluation of a   *)
(* crank-angle sweep.                                                      *)
(*                                                                         *)
(* JavaScript numbers are modelled as fixed-point integers with IEEE-754   *)
(* style special values.  Units:                                           *)
(*   lengths r1 r2 r3 L4 r4, coordinates .......... 1/1000 of a length unit *)
(*   angles in degrees ............................ 1/100 degree           *)
(*   angles in radians, sines and cosines, h42 .... 1/10000                *)
(*   stiffness K .................................. exact fraction, uN.m/rad*)
(*   energy, torque ............................... 1e-6 J, 1e-6 N.m       *)
(* Every operation rounds to the nearest unit, x/0 is +-Infinity, 0/0 is   *)
(* NaN, NaN propagates and every comparison with NaN is false, and a       *)
(* magnitude beyond the representable range overflows to +-Infinity.       *)
(***************************************************************************)
EXTENDS Integers, Sequences, FiniteSets, TLC

VARIABLES params, theta2Deg, point, loc, pc, n, nrm, positions,
          simulationData, sweep, app

vars ==
    <<params, theta2Deg, point, loc, pc, n, nrm, positions, simulationData,
      sweep, app>>

---------------------------------------------------------------------------
(* The number representation.                                              *)

\* Units per length unit, per degree, and per radian (and per 1.0 of a ratio).
LS == 1000
DS == 100
RS == 10000

\* Math.PI in 1/RS radians.
PI == 31416

\* IEEE special values: integers outside the finite range.
PInf == 2^30
NInf == -(2^30)
NaN == 2^30 + 1

IsNaN(x) == x = NaN
IsFinite(x) == x > NInf /\ x < PInf

\* const v = e; F(v): e is evaluated once and its value bound.
The(S) == CHOOSE v \in S : TRUE
With(e, F(_)) == The({ F(v) : v \in {e} })

Abs(x) == IF x < 0 THEN -x ELSE x
Sign(x) == IF x < 0 THEN -1 ELSE IF x > 0 THEN 1 ELSE 0

\* a / b rounded to the nearest integer (half away from zero), b > 0.
RoundDiv(a, b) ==
    IF a >= 0 THEN (2 * a + b) \div (2 * b)
    ELSE -((2 * (-a) + b) \div (2 * b))

\* <<q, r>> with a * b = q * c + r and 0 <= r < c, for a, b >= 0 and
\* 0 < c < 2^29, computed without forming a * b; q saturates at PInf.
RECURSIVE MulQR(_, _, _)
MulQR(a, b, c) ==
    IF b = 0 THEN <<0, 0>>
    ELSE With(MulQR(a, b \div 2, c), LAMBDA h :
         With(2 * h[2] + (IF b % 2 = 1 THEN a % c ELSE 0), LAMBDA r2 :
         With(IF h[1] >= 2^29 THEN PInf
              ELSE 2 * h[1] + (IF b % 2 = 1 THEN a \div c ELSE 0) + r2 \div c,
              LAMBDA q2 :
           <<IF q2 >= PInf THEN PInf ELSE q2, r2 % c>>)))

\* |a * b / c| rounded to nearest for a, b >= 0, c > 0; PInf on overflow.
MulDivU(a, b, c) ==
    IF a = 0 \/ b = 0 THEN 0
    ELSE IF b <= (2^29) \div a THEN
        With(RoundDiv(a * b, c), LAMBDA q : IF q >= PInf THEN PInf ELSE q)
    ELSE With(MulQR(a, b, c), LAMBDA qr :
           IF qr[1] >= PInf THEN PInf
           ELSE IF 2 * qr[2] >= c THEN
                   (IF qr[1] + 1 >= PInf THEN PInf ELSE qr[1] + 1)
           ELSE qr[1])

\* x + y and x - y on extended numbers.
FAdd(x, y) ==
    IF IsNaN(x) \/ IsNaN(y) THEN NaN
    ELSE IF x = PInf THEN (IF y = NInf THEN NaN ELSE PInf)
    ELSE IF x = NInf THEN (IF y = PInf THEN NaN ELSE NInf)
    ELSE IF y = PInf \/ y = NInf THEN y
    ELSE IF x + y >= PInf THEN PInf
    ELSE IF x + y <= NInf THEN NInf
    ELSE x + y

FNeg(x) == IF IsNaN(x) THEN NaN ELSE -x

FSub(x, y) == FAdd(x, FNeg(y))

\* x * y / c on extended numbers, c a positive finite scale: the product of
\* two fixed-point numbers whose scales multiply to c times the result's.
FMul(x, y, c) ==
    IF IsNaN(x) \/ IsNaN(y) THEN NaN
    ELSE IF ~IsFinite(x) \/ ~IsFinite(y) THEN
        (IF x = 0 \/ y = 0 THEN NaN
         ELSE IF Sign(x) * Sign(y) > 0 THEN PInf ELSE NInf)
    ELSE With(MulDivU(Abs(x), Abs(y), c), LAMBDA m :
           IF Sign(x) * Sign(y) < 0 THEN -m ELSE m)

\* x * s / y on extended numbers: the quotient x / y at scale s.  A zero
\* divisor is +0 (the difference of two equal numbers is +0).
FDiv(x, y, s) ==
    IF IsNaN(x) \/ IsNaN(y) THEN NaN
    ELSE IF ~IsFinite(x) THEN
        (IF ~IsFinite(y) THEN NaN
         ELSE IF Sign(x) * (IF y < 0 THEN -1 ELSE 1) > 0 THEN PInf ELSE NInf)
    ELSE IF ~IsFinite(y) THEN 0
    ELSE IF y = 0 THEN
        (IF x = 0 THEN NaN ELSE IF x > 0 THEN PInf ELSE NInf)
    ELSE With(MulDivU(Abs(x), s, Abs(y)), LAMBDA m :
           IF Sign(x) * Sign(y) < 0 THEN -m ELSE m)

\* Comparisons: false as soon as an operand is NaN.
FGt(x, y) == ~IsNaN(x) /\ ~IsNaN(y) /\ x > y
FLt(x, y) == ~IsNaN(x) /\ ~IsNaN(y) /\ x < y
FLe(x, y) == ~IsNaN(x) /\ ~IsNaN(y) /\ x <= y
FGe(x, y) == ~IsNaN(x) /\ ~IsNaN(y) /\ x >= y

---------------------------------------------------------------------------
(* Math.sqrt, Math.sin, Math.cos, Math.atan2, Math.acos on fixed point.    *)

\* The integer nearest to the square root of v >= 0, by bisection.
RECURSIVE SqrtIter(_, _, _)
SqrtIter(v, lo, hi) ==
    IF hi - lo <= 1 THEN (IF v - lo * lo <= lo THEN lo ELSE hi)
    ELSE With((lo + hi) \div 2, LAMBDA mid :
           IF mid * mid <= v THEN SqrtIter(v, mid, hi) ELSE SqrtIter(v, lo, mid))

Sqrt(v) ==
    IF IsNaN(v) \/ v < 0 THEN NaN
    ELSE IF v = PInf THEN PInf
    ELSE IF v = 0 THEN 0
    ELSE SqrtIter(v, 0, 32768)

\* sin and cos of x in [0, PI/4], by their Taylor polynomials.
SinT(x) ==
    With(RoundDiv(x * x, RS), LAMBDA y :
    With(RS - RoundDiv(y, 42), LAMBDA t3 :
    With(RS - RoundDiv(y * t3, 20 * RS), LAMBDA t2 :
    With(RS - RoundDiv(y * t2, 6 * RS), LAMBDA t1 :
      RoundDiv(x * t1, RS)))))

CosT(x) ==
    With(RoundDiv(x * x, RS), LAMBDA y :
    With(RS - RoundDiv(y, 56), LAMBDA t4 :
    With(RS - RoundDiv(y * t4, 30 * RS), LAMBDA t3 :
    With(RS - RoundDiv(y * t3, 12 * RS), LAMBDA t2 :
      RS - RoundDiv(y * t2, 2 * RS)))))

\* x reduced to (-PI, PI].
Wrap(x) ==
    With(x % (2 * PI), LAMBDA m : IF m > PI THEN m - 2 * PI ELSE m)

\* sin of x in [0, PI].
SinPos(x) ==
    With(IF 2 * x > PI THEN PI - x ELSE x, LAMBDA z :
      IF 4 * z <= PI THEN SinT(z) ELSE CosT(PI \div 2 - z))

Sin(x) ==
    IF ~IsFinite(x) THEN NaN
    ELSE With(Wrap(x), LAMBDA w : IF w < 0 THEN -SinPos(-w) ELSE SinPos(w))

Cos(x) == IF ~IsFinite(x) THEN NaN ELSE Sin(x + PI \div 2)

\* atan of t in [0, 0.4143] by its Taylor polynomial, and of t in [0, 1] by
\* atan t = PI/4 - atan((1 - t) / (1 + t)).
AtanT(t) ==
    With(RoundDiv(t * t, RS), LAMBDA z :
    With(1111 - RoundDiv(z * 909, RS), LAMBDA t5 :
    With(1429 - RoundDiv(z * t5, RS), LAMBDA t4 :
    With(2000 - RoundDiv(z * t4, RS), LAMBDA t3 :
    With(3333 - RoundDiv(z * t3, RS), LAMBDA t2 :
    With(RS - RoundDiv(z * t2, RS), LAMBDA t1 :
      RoundDiv(t * t1, RS)))))))

Atan01(t) ==
    IF t <= 4142 THEN AtanT(t)
    ELSE With(RoundDiv((RS - t) * RS, RS + t), LAMBDA u :
           RoundDiv(PI, 4) - AtanT(u))

\* Math.atan2(y, x); atan2(0, 0) = 0.
Atan2(y, x) ==
    IF IsNaN(y) \/ IsNaN(x) THEN NaN
    ELSE IF y = 0 THEN (IF x < 0 THEN PI ELSE 0)
    ELSE IF x = 0 THEN (IF y > 0 THEN PI \div 2 ELSE -(PI \div 2))
    ELSE With(IF Abs(y) <= Abs(x) THEN MulDivU(Abs(y), RS, Abs(x))
              ELSE MulDivU(Abs(x), RS, Abs(y)), LAMBDA t :
         With(IF Abs(y) <= Abs(x) THEN Atan01(t) ELSE PI \div 2 - Atan01(t),
              LAMBDA th :
         With(IF x < 0 THEN PI - th ELSE th, LAMBDA q :
           IF y < 0 THEN -q ELSE q)))

\* Math.acos(c) for c in [-1, 1].
Acos(c) ==
    IF IsNaN(c) \/ c > RS \/ c < -RS THEN NaN
    ELSE With(Sqrt(RS * RS - c * c), LAMBDA s : Atan2(s, c))

---------------------------------------------------------------------------
(* Exact fractions, for the stiffness: a product of powers of the          *)
(* parameters, which floating point scales exactly by powers of two.       *)

RECURSIVE Gcd(_, _)
Gcd(a, b) == IF b = 0 THEN a ELSE With(a % b, LAMBDA r : Gcd(b, r))

\* num / den in lowest terms, num >= 0, den > 0.
Frac(num, den) ==
    With(Gcd(num, den), LAMBDA g : [num |-> num \div g, den |-> den \div g])

FracMul(f, k) ==
    With(Gcd(k, f.den), LAMBDA g : Frac(f.num * (k \div g), f.den \div g))

FracDiv(f, k) ==
    With(Gcd(f.num, k), LAMBDA g :
      IF g = 0 THEN [num |-> 0, den |-> 1]
      ELSE Frac(f.num \div g, f.den * (k \div g)))

\* K * x / s for a fraction K and an extended number x.
KTimes(K, x, s) ==
    With(FMul(x, K.num, s), LAMBDA m :
      IF IsFinite(m) THEN RoundDiv(m, K.den) ELSE m)

---------------------------------------------------------------------------
(* constants.ts                                                            *)

\* PRB_GAMMA = 0.85 and PRB_K_THETA = 2.65, in hundredths.
PRB_GAMMA == 85
PRB_K_THETA == 265

\* Young's moduli of MATERIALS, in 1e8 Pa.
MATERIALS == {14, 2070, 700, 28, 1600}

\* Lengths in 1/LS cm, E in 1e8 Pa, b and h in 1e-4 m, angles in 1/DS deg.
DEFAULT_PARAMS ==
    [r1 |-> 3000, r2 |-> 1500, r3 |-> 3710, L4 |-> 4320,
     E |-> 14, b |-> 50, h |-> 15, theta20 |-> 9000, theta40 |-> 9000]

---------------------------------------------------------------------------
(* PRBModel.ts                                                             *)

\* The JavaScript remainder a % m: the sign of the dividend; NaN when a is
\* not finite.
Rem(a, m) ==
    IF ~IsFinite(a) THEN NaN
    ELSE IF a >= 0 THEN a % m ELSE -((-a) % m)

\* normalizeDegrees with "d < -180" in place of "d <= -180".
normalizeDegreesOpen(deg) ==
    With(Rem(deg, 360 * DS), LAMBDA d0 :
    With(IF FGt(d0, 180 * DS) THEN FSub(d0, 360 * DS) ELSE d0, LAMBDA d1 :
      IF FLt(d1, -(180 * DS)) THEN FAdd(d1, 360 * DS) ELSE d1))

normalizeDegrees(deg) ==
    With(Rem(deg, 360 * DS), LAMBDA d0 :
    With(IF FGt(d0, 180 * DS) THEN FSub(d0, 360 * DS) ELSE d0, LAMBDA d1 :
      IF FLe(d1, -(180 * DS)) THEN FAdd(d1, 360 * DS) ELSE d1))

normalizeRadians(rad) ==
    With(Rem(rad, 2 * PI), LAMBDA r0 :
    With(IF FGt(r0, PI) THEN FSub(r0, 2 * PI) ELSE r0, LAMBDA r1 :
      IF FLe(r1, -PI) THEN FAdd(r1, 2 * PI) ELSE r1))

\* (deg * Math.PI) / 180 and (rad * 180) / Math.PI.
toRadians(deg) == FMul(deg, PI, 180 * DS)
toDegrees(rad) == FMul(rad, 180 * DS, PI)

\* const r4 = PRB_GAMMA * L4
prbLength(L4) == FMul(PRB_GAMMA, L4, 100)

\* The second moment with h squared in place of h cubed.
secondMomentSquare(b, h) == Frac(b * h * h, 12)

\* I_val = (b * Math.pow(h, 3)) / 12, in 1e-16 m^4.
secondMoment(b, h) == Frac(b * h * h * h, 12)

\* K_val = PRB_GAMMA * PRB_K_THETA * (E * I_val / L4_meters), in 1e-6 N.m/rad,
\* with L4_meters = L4 / 100.
stiffness(E, I, L4) ==
    FracMul(FracDiv(FracMul(FracDiv(FracMul(I, E), L4), PRB_GAMMA), 10),
            PRB_K_THETA)

\* The assembly test without its second disjunct.
assemblyFailsOuterOnly(dist, r3, r4) == FGt(dist, FAdd(r3, r4))

\* dist > (r3 + r4) || dist < Math.abs(r3 - r4)
assemblyFails(dist, r3, r4) ==
    FGt(dist, FAdd(r3, r4)) \/ FLt(dist, Abs(r3 - r4))

\* cosBeta = (r4 * r4 + distSq - r3 * r3) / (2 * r4 * dist)
lawOfCosines(r3, r4, distSq, dist) ==
    FDiv(r4 * r4 + distSq - r3 * r3, 2 * r4 * dist, RS)

\* Math.max(-1, Math.min(1, cosBeta)); NaN stays NaN.
clampCos(c) ==
    IF IsNaN(c) THEN NaN
    ELSE IF c > RS THEN RS ELSE IF c < -RS THEN -RS ELSE c

\* The other assembly branch, t4 = phi + beta.
rockerAnglePlus(phi, beta) == FAdd(phi, beta)

\* t4 = phi - beta
rockerAngle(phi, beta) == FSub(phi, beta)

\* The deflection without normalizeRadians.
springDeflectionRaw(isValid, t4, theta40Rad) ==
    IF isValid THEN FSub(t4, theta40Rad) ELSE 0

\* deltaTheta4 = isValid ? normalizeRadians(t4 - theta40Rad) : 0
springDeflection(isValid, t4, theta40Rad) ==
    IF isValid THEN normalizeRadians(FSub(t4, theta40Rad)) ELSE 0

\* energy = isValid ? (0.5 * K_val * Math.pow(deltaTheta4, 2)) : 0
springEnergy(isValid, K, deltaTheta4) ==
    IF isValid THEN
        With(FMul(deltaTheta4, deltaTheta4, 1), LAMBDA sq :
        With(KTimes(K, sq, RS * RS), LAMBDA e :
          IF IsFinite(e) THEN RoundDiv(e, 2) ELSE e))
    ELSE 0

\* The kinematic coefficient replaced by 0 where its denominator vanishes.
kinematicCoefficientGuarded(isValid, r2, r4, t3, t4, theta2Rad) ==
    IF isValid THEN
        With(Sin(FSub(t3, theta2Rad)), LAMBDA s32 :
        With(Sin(FSub(t3, t4)), LAMBDA s34 :
        With(FMul(r2, s32, 1), LAMBDA num :
        With(FMul(r4, s34, 1), LAMBDA den :
          IF den = 0 THEN 0 ELSE FDiv(num, den, RS)))))
    ELSE 0

\* h42_val = isValid ? (r2 * Math.sin(t3 - theta2Rad)) / (r4 * Math.sin(t3 - t4)) : 0
kinematicCoefficient(isValid, r2, r4, t3, t4, theta2Rad) ==
    IF isValid THEN
        With(Sin(FSub(t3, theta2Rad)), LAMBDA s32 :
        With(Sin(FSub(t3, t4)), LAMBDA s34 :
        With(FMul(r2, s32, 1), LAMBDA num :
        With(FMul(r4, s34, 1), LAMBDA den :
          FDiv(num, den, RS)))))
    ELSE 0

\* torque_val = isValid ? (K_val * deltaTheta4 * h42_val) : 0
inputTorque(isValid, K, deltaTheta4, h42) ==
    IF isValid THEN With(KTimes(K, deltaTheta4, RS), LAMBDA kd : FMul(kd, h42, RS))
    ELSE 0

\* The locals of one call of calculateKinematics, block by block; each block
\* extends the record l of the locals assigned before it.

\* r4, theta2Rad, theta40Rad, L4_meters, I_val, K_val.
locPRB(theta2, p) ==
    With(secondMoment(p.b, p.h), LAMBDA I_val :
      [r4 |-> prbLength(p.L4),
       theta2Rad |-> toRadians(theta2),
       theta40Rad |-> toRadians(p.theta40),
       I_val |-> I_val,
       K_val |-> stiffness(p.E, I_val, p.L4)])

\* Ax, Ay, dx, dy, distSq, dist.
locCrank(p, l) ==
    With(Cos(l.theta2Rad), LAMBDA c2 :
    With(Sin(l.theta2Rad), LAMBDA s2 :
    With(FMul(p.r2, c2, RS), LAMBDA Ax :
    With(FMul(p.r2, s2, RS), LAMBDA Ay :
    With((Ax - p.r1) * (Ax - p.r1) + Ay * Ay, LAMBDA distSq :
      l @@ [Ax |-> Ax, Ay |-> Ay, dx |-> Ax - p.r1, dy |-> Ay,
            distSq |-> distSq, dist |-> Sqrt(distSq)])))))

\* isValid, t3 and t4 as declared, and the assembly condition.
locAssembly(p, l) ==
    l @@ [isValid |-> ~assemblyFails(l.dist, p.r3, l.r4), t3 |-> 0, t4 |-> 0,
          cosBeta |-> 0, beta |-> 0, phi |-> 0, Bx |-> 0, By |-> 0]

\* The rocker block entered whatever the assembly test said.
locRockerAlways(p, l) ==
    With(lawOfCosines(p.r3, l.r4, l.distSq, l.dist), LAMBDA cosBeta :
    With(clampCos(cosBeta), LAMBDA clamped :
    With(Acos(clamped), LAMBDA beta :
    With(Atan2(l.dy, l.dx), LAMBDA phi :
      [cosBeta |-> cosBeta, beta |-> beta, phi |-> phi,
       t4 |-> rockerAngle(phi, beta)] @@ l))))

\* The else branch: cosBeta, beta, phi, t4.
locRocker(p, l) ==
    IF ~l.isValid THEN l
    ELSE With(lawOfCosines(p.r3, l.r4, l.distSq, l.dist), LAMBDA cosBeta :
         With(clampCos(cosBeta), LAMBDA clamped :
         With(Acos(clamped), LAMBDA beta :
         With(Atan2(l.dy, l.dx), LAMBDA phi :
           [cosBeta |-> cosBeta, beta |-> beta, phi |-> phi,
            t4 |-> rockerAngle(phi, beta)] @@ l))))

\* The else branch: Bx, By, t3.
locCoupler(p, l) ==
    IF ~l.isValid THEN l
    ELSE With(Cos(l.t4), LAMBDA c4 :
         With(Sin(l.t4), LAMBDA s4 :
         With(FMul(l.r4, c4, RS), LAMBDA r4c :
         With(FAdd(p.r1, r4c), LAMBDA Bx :
         With(FMul(l.r4, s4, RS), LAMBDA By :
         With(FSub(By, l.Ay), LAMBDA yy :
         With(FSub(Bx, l.Ax), LAMBDA xx :
           [Bx |-> Bx, By |-> By, t3 |-> Atan2(yy, xx)] @@ l)))))))

\* deltaTheta4, energy, h42_val, torque_val.
locSpring(p, l) ==
    With(springDeflection(l.isValid, l.t4, l.theta40Rad), LAMBDA deltaTheta4 :
    With(kinematicCoefficient(l.isValid, p.r2, l.r4, l.t3, l.t4, l.theta2Rad),
         LAMBDA h42_val :
      l @@ [deltaTheta4 |-> deltaTheta4,
            energy |-> springEnergy(l.isValid, l.K_val, deltaTheta4),
            h42_val |-> h42_val,
            torque_val |-> inputTorque(l.isValid, l.K_val, deltaTheta4,
                                       h42_val)]))

kinLocals(theta2, p) ==
    The({ locSpring(p, l5) : l5 \in
        { locCoupler(p, l4) : l4 \in
        { locRocker(p, l3) : l3 \in
        { locAssembly(p, l2) : l2 \in
        { locCrank(p, l1) : l1 \in { locPRB(theta2, p) } } } } } })

\* The returned record with theta2 normalised like theta3 and theta4.
makePointNormalized(theta2, p, l) ==
    With(normalizeDegrees(theta2), LAMBDA t2 :
      [theta2 |-> t2,
       theta3 |-> With(toDegrees(l.t3), LAMBDA d : normalizeDegrees(d)),
       theta4 |-> With(toDegrees(l.t4), LAMBDA d : normalizeDegrees(d)),
       deltaTheta2 |-> t2 - p.theta20,
       energy |-> l.energy,
       torque |-> l.torque_val,
       isValid |-> l.isValid,
       prb |-> [gamma |-> PRB_GAMMA, kTheta |-> PRB_K_THETA, r4 |-> l.r4,
                I |-> l.I_val, K |-> l.K_val]])

\* The record calculateKinematics returns, built from its locals.
makePoint(theta2, p, l) ==
    [theta2 |-> theta2,
     theta3 |-> With(toDegrees(l.t3), LAMBDA d : normalizeDegrees(d)),
     theta4 |-> With(toDegrees(l.t4), LAMBDA d : normalizeDegrees(d)),
     deltaTheta2 |-> theta2 - p.theta20,
     energy |-> l.energy,
     torque |-> l.torque_val,
     isValid |-> l.isValid,
     prb |-> [gamma |-> PRB_GAMMA, kTheta |-> PRB_K_THETA, r4 |-> l.r4,
              I |-> l.I_val, K |-> l.K_val]]

calculateKinematics(theta2, p) ==
    With(kinLocals(theta2, p), LAMBDA l : makePoint(theta2, p, l))

\* getJointPositions: A from point.theta2, B from A and point.theta3.
getJointPositions(pt, p) ==
    With(toRadians(pt.theta2), LAMBDA theta2Rad :
    With(toRadians(pt.theta3), LAMBDA theta3Rad :
    With(<<FMul(p.r2, Cos(theta2Rad), RS), FMul(p.r2, Sin(theta2Rad), RS)>>,
         LAMBDA A_pos :
      [A0 |-> <<0, 0>>,
       B0 |-> <<p.r1, 0>>,
       A |-> A_pos,
       B |-> <<FAdd(A_pos[1], FMul(p.r3, Cos(theta3Rad), RS)),
               FAdd(A_pos[2], FMul(p.r3, Sin(theta3Rad), RS))>>])))

---------------------------------------------------------------------------
(* The evaluator, called over a sweep of crank angles.                     *)

\* Number of further sweep samples taken after the first evaluation.
MaxSteps == 2

\* for (let t = -180; t <= 180; t += 1): the sweep's step, one degree.
SweepStep == 1 * DS

\* Link lengths <<r1, r2, r3, L4>>: the reference mechanism; r1 = r2 with
\* r3 = r4, where the crank pin can sit on B0; two mechanisms that reach a
\* limit position at theta2 = +-90 (d = r3 - r4 and d = r3 + r4); one that
\* closes at theta4 = 90 for theta2 = 90; and two that assemble over part of
\* the crank circle only; and a second one that closes at theta4 = 90 for
\* theta2 = 90.
Geometries ==
    { <<3000, 1500, 3710, 4320>>,
      <<1500, 1500, 1700, 2000>>,
      <<4000, 3000, 6700, 2000>>,
      <<4000, 3000, 3300, 2000>>,
      <<4000, 3800, 5000, 8000>>,
      <<3000, 1500, 1000, 1000>>,
      <<1000, 1200, 2000, 4000>>,
      <<3000, 1100, 5000, 6000>> }

\* Material and section <<E, b, h>>: the default (polypropylene), nylon
\* (twice the modulus), and a doubled thickness h.
Sections == { <<14, 50, 15>>, <<28, 50, 15>>, <<14, 50, 30>> }

\* Reference angles <<theta20, theta40>>.
References ==
    { <<9000, 9000>>, <<9000, -3687>>, <<-9000, 14301>>, <<0, 0>>,
      <<18000, 4500>> }

ParamSets ==
    { [r1 |-> g[1], r2 |-> g[2], r3 |-> g[3], L4 |-> g[4],
       E |-> m[1], b |-> m[2], h |-> m[3],
       theta20 |-> a[1], theta40 |-> a[2]] :
      g \in Geometries, m \in Sections, a \in References }

\* Supplied crank angles, some outside [-180, 180] degrees.
Theta2Inputs == { -27000, -18000, -9000, 0, 4500, 9000, 18000, 36000 }

NoLocals == kinLocals(0, DEFAULT_PARAMS)

\* The joints of the mechanism before the first call.
NoPositions ==
    getJointPositions(makePoint(0, DEFAULT_PARAMS, NoLocals), DEFAULT_PARAMS)

\* The controls of the app as first rendered: theta2 at the default
\* reference, not animating, no frame requested.
NoApp ==
    [theta2 |-> DEFAULT_PARAMS.theta20, isAnimating |-> FALSE,
     animationFrame |-> 0, scheduled |-> {}, issued |-> 0, last |-> "render"]

\* The sweep of the app before it is run.
NoSweep == [pc |-> "idle", t |-> 0]

\* The normalisation bench at rest.
NoNorm ==
    [unit |-> "deg", theta |-> 0, k |-> 0, pc |-> "idle", out |-> 0,
     again |-> 0]

Init ==
    /\ params \in ParamSets
    /\ theta2Deg \in Theta2Inputs
    /\ point = makePoint(0, DEFAULT_PARAMS, NoLocals)
    /\ loc = NoLocals
    /\ pc = "call"
    /\ n = 0
    /\ nrm = NoNorm
    /\ positions = NoPositions
    /\ simulationData = <<>>
    /\ sweep = NoSweep
    /\ app = NoApp

\* const p = calculateKinematics(theta2, params)
Evaluate ==
    /\ pc = "call"
    /\ \E l \in {kinLocals(theta2Deg, params)} :
          /\ loc' = l
          /\ point' = makePoint(theta2Deg, params, l)
    /\ pc' = "done"
    /\ UNCHANGED <<params, theta2Deg, n, nrm, positions, simulationData,
                   sweep, app>>

\* const positions = getJointPositions(currentPoint, params)
Locate ==
    /\ pc = "done"
    /\ positions' = getJointPositions(point, params)
    /\ pc' = "drawn"
    /\ UNCHANGED <<params, theta2Deg, point, loc, n, nrm, simulationData,
                   sweep, app>>

\* The sweep moves on to the next angle.
NextAngle ==
    /\ pc \in {"done", "drawn"}
    /\ n < MaxSteps
    /\ theta2Deg' = theta2Deg + SweepStep
    /\ n' = n + 1
    /\ pc' = "call"
    /\ UNCHANGED <<params, point, loc, nrm, positions, simulationData,
                   sweep, app>>

Next == Evaluate \/ Locate \/ NextAngle

Spec == Init /\ [][Next]_vars

---------------------------------------------------------------------------
(* normalizeDegrees and normalizeRadians on their own: an angle theta is   *)
(* normalised after k whole turns have been added, and the result is       *)
(* normalised again.                                                       *)

\* Whole turns added to an angle, in either direction.
MaxTurns == 2

\* Angles in 1/DS deg, around the window's two ends and well outside it.
NormInputsDeg ==
    { -54000, -36000, -27000, -18001, -18000, -17999, -9000, -1, 0, 1,
      9000, 17999, 18000, 18001, 27000, 36000, 54000 }

\* Angles in 1/RS rad.
NormInputsRad ==
    { -(3 * PI), -(2 * PI), -PI - 1, -PI, -PI + 1, -(PI \div 2), -1, 0, 1,
      PI \div 2, PI - 1, PI, PI + 1, 2 * PI, 3 * PI }

period(unit) == IF unit = "deg" THEN 360 * DS ELSE 2 * PI

normalize(unit, x) ==
    IF unit = "deg" THEN normalizeDegrees(x) ELSE normalizeRadians(x)

InitNorm ==
    /\ params = DEFAULT_PARAMS
    /\ theta2Deg = DEFAULT_PARAMS.theta20
    /\ point = makePoint(0, DEFAULT_PARAMS, NoLocals)
    /\ loc = NoLocals
    /\ pc = "idle"
    /\ n = 0
    /\ positions = NoPositions
    /\ simulationData = <<>>
    /\ sweep = NoSweep
    /\ app = NoApp
    /\ nrm \in { [unit |-> "deg", theta |-> t, k |-> 0, pc |-> "in",
                  out |-> 0, again |-> 0] : t \in NormInputsDeg }
          \cup { [unit |-> "rad", theta |-> t, k |-> 0, pc |-> "in",
                  out |-> 0, again |-> 0] : t \in NormInputsRad }

\* normalize(theta + k turns)
Normalize ==
    /\ nrm.pc = "in"
    /\ nrm' = [nrm EXCEPT
                 !.out = normalize(nrm.unit,
                                   nrm.theta + nrm.k * period(nrm.unit)),
                 !.pc = "out"]
    /\ UNCHANGED <<params, theta2Deg, point, loc, pc, n, positions,
                    simulationData, sweep, app>>

\* normalize(normalize(...))
Renormalize ==
    /\ nrm.pc = "out"
    /\ nrm' = [nrm EXCEPT !.again = normalize(nrm.unit, nrm.out),
                          !.pc = "again"]
    /\ UNCHANGED <<params, theta2Deg, point, loc, pc, n, positions,
                    simulationData, sweep, app>>

\* One more whole turn, forwards or backwards.
AddTurn ==
    /\ nrm.pc = "again"
    /\ \E dk \in {-1, 1} :
          /\ Abs(nrm.k + dk) <= MaxTurns
          /\ nrm' = [nrm EXCEPT !.k = nrm.k + dk, !.pc = "in"]
    /\ UNCHANGED <<params, theta2Deg, point, loc, pc, n, positions,
                    simulationData, sweep, app>>

NextNorm == Normalize \/ Renormalize \/ AddTurn

SpecNorm == InitNorm /\ [][NextNorm]_vars

---------------------------------------------------------------------------
(* App.tsx: the parameter state and the sweep simulationData, computed     *)
(* again by every render that follows a parameter edit.                    *)

\* for (let t = -180; t <= 180; t += 1)
SweepFirst == -180
SweepLast == 180

\* The edit applied to the defaults instead of the previous Parameter Set.
updateParamFromDefaults(prev, key, value) ==
    [DEFAULT_PARAMS EXCEPT ![key] = value]

\* setParams(prev => ({ ...prev, [key]: value }))
updateParam(prev, key, value) == [prev EXCEPT ![key] = value]

\* The sweep filter with every point kept.
keepPointAlways(p) == TRUE

\* if (p.isValid) data.push(p)
keepPoint(p) == p.isValid

\* Slider positions <<key, value>> used to edit the parameters: the crank on
\* the ground pivot (r1 = r2), a ground link too long to assemble, a short
\* coupler, a short rocker, and another reference crank angle.
SweepEdits ==
    { <<"r1", 1500>>, <<"r1", 10000>>, <<"r3", 1700>>, <<"L4", 2000>>,
      <<"theta20", 0>> }

\* The first render, with the initial state of line 12.
InitSweep ==
    /\ params = DEFAULT_PARAMS
    /\ theta2Deg = DEFAULT_PARAMS.theta20
    /\ point = makePoint(0, DEFAULT_PARAMS, NoLocals)
    /\ loc = NoLocals
    /\ pc = "idle"
    /\ n = 0
    /\ nrm = NoNorm
    /\ positions = NoPositions
    /\ simulationData = <<>>
    /\ sweep = [pc |-> "loop", t |-> SweepFirst]
    /\ app = NoApp

\* One iteration of the loop of lines 20-23.
SweepIteration ==
    /\ sweep.pc = "loop"
    /\ sweep.t <= SweepLast
    /\ \E p \in {calculateKinematics(params.theta20 + sweep.t * SweepStep,
                                      params)} :
          simulationData' =
              IF keepPoint(p) THEN Append(simulationData, p)
              ELSE simulationData
    /\ sweep' = [sweep EXCEPT !.t = sweep.t + 1]
    /\ UNCHANGED <<params, theta2Deg, point, loc, pc, n, nrm, positions, app>>

\* return data
SweepReturn ==
    /\ sweep.pc = "loop"
    /\ sweep.t > SweepLast
    /\ sweep' = [sweep EXCEPT !.pc = "ready"]
    /\ UNCHANGED <<params, theta2Deg, point, loc, pc, n, nrm, positions,
                   simulationData, app>>

\* A parameter edit through updateParam; the render that follows starts the
\* sweep again because params has changed.
EditParam ==
    /\ sweep.pc = "ready"
    /\ \E e \in SweepEdits : params' = updateParam(params, e[1], e[2])
    /\ simulationData' = <<>>
    /\ sweep' = [pc |-> "loop", t |-> SweepFirst]
    /\ UNCHANGED <<theta2Deg, point, loc, pc, n, nrm, positions, app>>

NextSweep == SweepIteration \/ SweepReturn \/ EditParam

SpecSweep == InitSweep /\ [][NextSweep]_vars

---------------------------------------------------------------------------
(* App.tsx: the parameter inputs.  A range input reports a number between  *)
(* its min and max; the two ends of each slider are used.                  *)

\* <InputRange min max onChange>, in the units of the parameter it edits.
InputRange(min, max) == {min, max}

\* The state left alone by a parameter input.
EditControl(key, values) ==
    /\ \E v \in values : params' = updateParam(params, key, v)
    /\ UNCHANGED <<theta2Deg, point, loc, pc, n, nrm, positions,
                   simulationData, sweep, app>>

\* <select value={params.E}>: one option per material.
SelectMaterial == EditControl("E", MATERIALS)

\* Ground (r1), min 1, max 10.
SlideR1 == EditControl("r1", InputRange(1 * LS, 10 * LS))

\* Crank (r2), min 0.5, max 5.
SlideR2 == EditControl("r2", InputRange(LS \div 2, 5 * LS))

\* Coupler (r3), min 1, max 10.
SlideR3 == EditControl("r3", InputRange(1 * LS, 10 * LS))

\* Total Rocker (L4), min 1, max 10.
SlideL4 == EditControl("L4", InputRange(1 * LS, 10 * LS))

\* Width (b), min 1 mm, max 20 mm, stored as v / 1000 m.
SlideB == EditControl("b", InputRange(1 * 10, 20 * 10))

\* Thickness (h), min 0.1 mm, max 5 mm, stored as v / 1000 m.
SlideH == EditControl("h", InputRange(1, 5 * 10))

\* Undeflected theta20, min -180, max 180.
SlideTheta20 == EditControl("theta20", InputRange(-(180 * DS), 180 * DS))

\* Undeflected theta40, min 0, max 180.
SlideTheta40 == EditControl("theta40", InputRange(0, 180 * DS))

InitParams ==
    /\ params = DEFAULT_PARAMS
    /\ theta2Deg = DEFAULT_PARAMS.theta20
    /\ point = makePoint(0, DEFAULT_PARAMS, NoLocals)
    /\ loc = NoLocals
    /\ pc = "idle"
    /\ n = 0
    /\ nrm = NoNorm
    /\ positions = NoPositions
    /\ simulationData = <<>>
    /\ sweep = NoSweep
    /\ app = NoApp

NextParams ==
    \/ SelectMaterial
    \/ SlideR1 \/ SlideR2 \/ SlideR3 \/ SlideL4
    \/ SlideB \/ SlideH
    \/ SlideTheta20 \/ SlideTheta40

SpecParams == InitParams /\ [][NextParams]_vars

---------------------------------------------------------------------------
(* App.tsx: the crank-angle controls and the animation.  app.theta2 and    *)
(* app.isAnimating are the React state; app.animationFrame is the variable *)
(* of the running effect (0 when it holds no handle); app.scheduled are    *)
(* the frame requests the browser has not yet served or cancelled;         *)
(* app.issued is the last handle requestAnimationFrame returned; app.last  *)
(* names the handler or callback that ran last.  A click handler runs to   *)
(* the end of the render it causes, the effect's cleanup and the new       *)
(* effect included.                                                        *)

\* Frame requests issued in one behaviour.
MaxFrames == 4

\* let next = prev + 1.2, in 1/DS deg.
FrameStep == 120

\* The frame update without the wrap to -180.
advanceNoWrap(prev) == prev + FrameStep

\* next = prev + 1.2; if (next > 180) next = -180
advance(prev) ==
    With(prev + FrameStep, LAMBDA next :
      IF next > 180 * DS THEN -(180 * DS) ELSE next)

\* A cleanup that cancels nothing.
effectCleanupLeak(handle, scheduled) == scheduled

\* if (animationFrame) cancelAnimationFrame(animationFrame)
effectCleanup(handle, scheduled) ==
    IF handle # 0 THEN scheduled \ {handle} ELSE scheduled

\* setIsAnimating(now) and the render that follows: when isAnimating changes
\* the effect of lines 35-51 is cleaned up and run again, requesting a frame
\* if now is true.
setIsAnimating(a, now) ==
    IF now = a.isAnimating THEN a
    ELSE With(effectCleanup(a.animationFrame, a.scheduled), LAMBDA left :
           IF now THEN
               [a EXCEPT !.isAnimating = TRUE,
                         !.animationFrame = a.issued + 1,
                         !.scheduled = left \cup {a.issued + 1},
                         !.issued = a.issued + 1]
           ELSE
               [a EXCEPT !.isAnimating = FALSE,
                         !.animationFrame = 0,
                         !.scheduled = left])

\* Positions of the theta2 slider (min -180, max 180), in 1/DS deg.
Theta2Stops == { -(180 * DS), 0, 179 * DS, 180 * DS }

InitApp ==
    /\ params = DEFAULT_PARAMS
    /\ theta2Deg = DEFAULT_PARAMS.theta20
    /\ point = makePoint(0, DEFAULT_PARAMS, NoLocals)
    /\ loc = NoLocals
    /\ pc = "idle"
    /\ n = 0
    /\ nrm = NoNorm
    /\ positions = NoPositions
    /\ simulationData = <<>>
    /\ sweep = NoSweep
    /\ app = NoApp

\* onClick={() => setIsAnimating(!isAnimating)}
TogglePlay ==
    /\ app.isAnimating \/ app.issued < MaxFrames
    /\ app' = [setIsAnimating(app, ~app.isAnimating) EXCEPT !.last = "toggle"]
    /\ UNCHANGED <<params, theta2Deg, point, loc, pc, n, nrm, positions,
                   simulationData, sweep>>

\* onClick={() => { setTheta2(params.theta20); setIsAnimating(false); }}
Reset ==
    /\ app' = [setIsAnimating([app EXCEPT !.theta2 = params.theta20], FALSE)
                 EXCEPT !.last = "reset"]
    /\ UNCHANGED <<params, theta2Deg, point, loc, pc, n, nrm, positions,
                   simulationData, sweep>>

\* onChange={(e) => setTheta2(parseFloat(e.target.value))}
MoveSlider ==
    /\ \E v \in Theta2Stops :
          app' = [app EXCEPT !.theta2 = v, !.last = "slider"]
    /\ UNCHANGED <<params, theta2Deg, point, loc, pc, n, nrm, positions,
                   simulationData, sweep>>

\* The browser serves a frame request: animate() advances theta2 and
\* requests the next frame.
AnimationFrame ==
    /\ app.issued < MaxFrames
    /\ \E h \in app.scheduled :
          app' = [app EXCEPT !.theta2 = advance(app.theta2),
                             !.animationFrame = app.issued + 1,
                             !.scheduled = (@ \ {h}) \cup {app.issued + 1},
                             !.issued = app.issued + 1,
                             !.last = "frame"]
    /\ UNCHANGED <<params, theta2Deg, point, loc, pc, n, nrm, positions,
                   simulationData, sweep>>

NextApp ==
    TogglePlay \/ Reset \/ MoveSlider \/ AnimationFrame \/ SlideTheta20

SpecApp == InitApp /\ [][NextApp]_vars

---------------------------------------------------------------------------
(* Properties of calculateKinematics.                                      *)

\* Tolerances of the fixed-point arithmetic: lengths in 1/LS cm, angles in
\* 1/DS deg, energies in 1e-6 J, torques in 1e-6 N.m.
TolLen == 5
TolDeg == 20
TolEnergy == 1
TolTorque == 10

Hypot(dx, dy) ==
    IF ~IsFinite(dx) \/ ~IsFinite(dy) THEN NaN ELSE Sqrt(dx * dx + dy * dy)

Within(x, y, tol) == IsFinite(x) /\ IsFinite(y) /\ Abs(x - y) <= tol

AngleWithin(a, b, tol) ==
    IsFinite(a) /\ IsFinite(b) /\ Abs(normalizeDegrees(a - b)) <= tol

\* A = r2 (cos theta2, sin theta2), from the angle in degrees.
crankPin(theta2, p) ==
    With(toRadians(theta2), LAMBDA t :
      <<FMul(p.r2, Cos(t), RS), FMul(p.r2, Sin(t), RS)>>)

\* B = B0 + r4 (cos theta4, sin theta4), from the angle in degrees.
rockerPin(theta4, p) ==
    With(toRadians(theta4), LAMBDA t :
    With(prbLength(p.L4), LAMBDA r4 :
      <<FAdd(p.r1, FMul(r4, Cos(t), RS)), FMul(r4, Sin(t), RS)>>))

\* d = |A - B0| of the evaluation in hand.
crankToPivot ==
    With(crankPin(theta2Deg, params), LAMBDA A :
      Hypot(FSub(A[1], params.r1), A[2]))

\* d > r3 + r4 or d < |r3 - r4|.
Infeasible ==
    With(crankToPivot, LAMBDA d :
    With(prbLength(params.L4), LAMBDA r4 :
      FGt(d, params.r3 + r4) \/ FLt(d, Abs(params.r3 - r4))))

\* C1: for every crank angle and Parameter Set the returned isValid is false
\* if and only if d = |A - B0| satisfies d > r3 + r4 or d < |r3 - r4|; nothing
\* else makes it false.
C1_InvalidIffInfeasible ==
    pc = "done" => ((point.isValid = FALSE) <=> Infeasible)

\* C1: an evaluation rejected because d < |r3 - r4|.
C1_Witness ==
    /\ pc = "done"
    /\ ~point.isValid
    /\ FLt(crankToPivot, Abs(params.r3 - prbLength(params.L4)))

\* The fields of a SimulationPoint.
PointFields ==
    {"theta2", "theta3", "theta4", "deltaTheta2", "energy", "torque",
     "isValid", "prb"}

\* C2: calculateKinematics returns a record for any crank angle and Parameter
\* Set (Evaluate has no guard on its inputs, and every evaluation ends with a
\* complete SimulationPoint), and when the assembly is infeasible that record
\* has isValid = false, theta3 = theta4 = energy = torque = 0, with theta2,
\* deltaTheta2 and the prb constants still populated.
C2_TotalAndZeroedWhenInfeasible ==
    /\ pc = "done" =>
          /\ DOMAIN point = PointFields
          /\ point.isValid \in BOOLEAN
          /\ \A f \in PointFields \ {"isValid", "prb"} : point[f] \in Int
    /\ (pc = "done" /\ Infeasible) =>
          /\ point.isValid = FALSE
          /\ point.theta3 = 0 /\ point.theta4 = 0
          /\ point.energy = 0 /\ point.torque = 0
          /\ point.theta2 = theta2Deg
          /\ point.deltaTheta2 = theta2Deg - params.theta20
          /\ point.prb.gamma = PRB_GAMMA /\ point.prb.kTheta = PRB_K_THETA
          /\ point.prb.r4 = prbLength(params.L4)
          /\ point.prb.I = secondMoment(params.b, params.h)
          /\ point.prb.K = stiffness(params.E, point.prb.I, params.L4)
          /\ point.prb.K.num > 0

\* C2: an infeasible evaluation at a crank angle away from the reference, with
\* a reference rocker angle other than 0.
C2_Witness ==
    /\ pc = "done"
    /\ Infeasible
    /\ theta2Deg # params.theta20
    /\ params.theta40 # 0

\* The solved angles of the evaluation in hand are numbers.
Solved == point.isValid /\ IsFinite(point.theta3) /\ IsFinite(point.theta4)

\* |B - B0| = r4 and |B - A| = r3 for B = B0 + r4 (cos theta4, sin theta4),
\* and theta3 is the direction from A to B.
LoopCloses ==
    With(crankPin(theta2Deg, params), LAMBDA A :
    With(rockerPin(point.theta4, params), LAMBDA B :
      /\ Within(Hypot(FSub(B[1], params.r1), B[2]), prbLength(params.L4),
                TolLen)
      /\ Within(Hypot(FSub(B[1], A[1]), FSub(B[2], A[2])), params.r3, TolLen)
      /\ AngleWithin(point.theta3,
                     toDegrees(Atan2(FSub(B[2], A[2]), FSub(B[1], A[1]))),
                     TolDeg)))

\* C3: in every valid state the rocker pin B = B0 + r4 (cos theta4, sin theta4)
\* closes the loop, |B - B0| = r4 and |B - A| = r3, and theta3 is the direction
\* of the vector from A to B.
C3_LoopCloses == (pc = "done" /\ point.isValid) => LoopCloses

\* The loop closes in every valid state whose angles are numbers.
LoopClosesWhenSolved == (pc = "done" /\ Solved) => LoopCloses

\* (A - B0) x (B - B0) <= 0, up to a distance TolLen of B from the line B0 A:
\* B is not on the counter-clockwise side of the ray from B0 to A.
NotCounterClockwise ==
    With(crankPin(theta2Deg, params), LAMBDA A :
    With(rockerPin(point.theta4, params), LAMBDA B :
    With(crankToPivot, LAMBDA d :
      /\ IsFinite(B[1]) /\ IsFinite(B[2]) /\ IsFinite(d)
      /\ (A[1] - params.r1) * B[2] - A[2] * (B[1] - params.r1)
           <= TolLen * d)))

\* The rocker angle is phi - beta with beta in [0, pi].
PhiMinusBeta ==
    /\ FGe(loc.beta, 0) /\ FLe(loc.beta, PI)
    /\ IsFinite(loc.phi)
    /\ loc.t4 = loc.phi - loc.beta
    /\ point.theta4 = normalizeDegrees(toDegrees(loc.t4))

\* C4: in every valid evaluation the rocker angle is the phi - beta branch with
\* beta in [0, pi]; B is never strictly on the counter-clockwise side of the
\* ray from B0 to A, so the phi + beta branch is never produced.
C4_PhiMinusBetaBranch ==
    (pc = "done" /\ point.isValid) => (PhiMinusBeta /\ NotCounterClockwise)

\* The branch is phi - beta in every valid state whose angles are numbers.
BranchWhenSolved ==
    (pc = "done" /\ Solved) => (PhiMinusBeta /\ NotCounterClockwise)

\* C5: energy >= 0 in every valid state.
C5_EnergyNonNegative == (pc = "done" /\ point.isValid) => FGe(point.energy, 0)

\* The energy is not negative in every valid state whose angles are numbers.
EnergyWhenSolved == (pc = "done" /\ Solved) => FGe(point.energy, 0)

\* An angle of (-180, 180] degrees.
InWindow(deg) == FGt(deg, -(180 * DS)) /\ FLe(deg, 180 * DS)

\* C6: in every returned record theta3 and theta4 lie in (-180, 180] degrees.
C6_AnglesInWindow ==
    pc = "done" => (InWindow(point.theta3) /\ InWindow(point.theta4))

\* The angles lie in the window whenever they are numbers.
WindowWhenSolved ==
    (pc = "done" /\ IsFinite(point.theta3) /\ IsFinite(point.theta4)) =>
        (InWindow(point.theta3) /\ InWindow(point.theta4))

---------------------------------------------------------------------------
(* Properties of the angle normalisation.                                  *)

\* Half a turn in the unit of the angle.
halfTurn(unit) == IF unit = "deg" THEN 180 * DS ELSE PI

\* C7: normalizeDegrees, and normalizeRadians with 2 pi for 360, are
\* idempotent and periodic: the result lies in (-180, 180], a value already
\* there is returned unchanged, normalising a result again changes nothing, and
\* theta + 360 k normalises to the same value as theta for every integer k,
\* theta = 180 and theta = -180 included.
C7_NormalisationStable ==
    /\ nrm.pc \in {"out", "again"} =>
          /\ nrm.out > -halfTurn(nrm.unit) /\ nrm.out <= halfTurn(nrm.unit)
          /\ nrm.out = normalize(nrm.unit, nrm.theta)
          /\ (/\ nrm.theta > -halfTurn(nrm.unit)
              /\ nrm.theta <= halfTurn(nrm.unit)) => nrm.out = nrm.theta
          /\ (nrm.out - nrm.theta) % period(nrm.unit) = 0
    /\ nrm.pc = "again" => nrm.again = nrm.out

\* C7: -180 degrees with whole turns added, normalised twice.
C7_Witness ==
    /\ nrm.pc = "again"
    /\ nrm.unit = "deg"
    /\ nrm.theta = -(180 * DS)
    /\ nrm.k # 0
    /\ nrm.again = 180 * DS

---------------------------------------------------------------------------
(* Properties of the returned crank angle and of the reference             *)
(* configuration.                                                          *)

\* C8: the returned theta2 is the supplied crank angle, not normalised, and
\* deltaTheta2 = theta2 - theta20, for valid and invalid states and for angles
\* outside [-180, 180]; so from one sample of a sweep to the next theta2 and
\* deltaTheta2 strictly increase.
C8_Theta2AsSupplied ==
    /\ [](pc = "done" =>
            /\ point.theta2 = theta2Deg
            /\ point.deltaTheta2 = theta2Deg - params.theta20)
    /\ [][(pc = "call" /\ pc' = "done" /\ n > 0) =>
            /\ point'.theta2 > point.theta2
            /\ point'.deltaTheta2 > point.deltaTheta2]_vars

\* C8: a second sample of a sweep, evaluated beyond 180 degrees, in an invalid
\* state.
C8_Witness ==
    /\ pc = "done"
    /\ n > 0
    /\ theta2Deg > 180 * DS
    /\ point.theta2 = theta2Deg
    /\ ~point.isValid

\* The evaluation in hand is at theta2 = theta20, the four-bar assembles there
\* and theta40 equals its phi - beta solution modulo 360.
AtReference ==
    /\ pc = "done"
    /\ theta2Deg = params.theta20
    /\ ~Infeasible
    /\ AngleWithin(normalizeDegrees(toDegrees(loc.t4)), params.theta40, 0)

\* theta3 = theta4 modulo 180 degrees: a toggle position.
Toggle ==
    \/ ~IsFinite(point.theta3) \/ ~IsFinite(point.theta4)
    \/ Sin(toRadians(point.theta3 - point.theta4)) = 0

\* isValid = true, theta4 = theta40 (mod 360), energy = 0 and torque = 0.
Relaxed ==
    /\ point.isValid
    /\ AngleWithin(point.theta4, params.theta40, 0)
    /\ Within(point.energy, 0, TolEnergy)
    /\ Within(point.torque, 0, TolTorque)

C10_DefaultsBistable ==
    (pc = "done" /\ params = DEFAULT_PARAMS) =>
        /\ theta2Deg = 90 * DS =>
              /\ point.isValid
              /\ AngleWithin(point.theta4, 90 * DS, TolDeg)
              /\ point.deltaTheta2 = 0
              /\ Within(point.energy, 0, TolEnergy)
        /\ theta2Deg = -(90 * DS) =>
              /\ point.isValid
              /\ IsFinite(point.energy) /\ point.energy > TolEnergy
              /\ With(calculateKinematics(90 * DS, params), LAMBDA q :
                   /\ ~AngleWithin(point.theta3, q.theta3, TolDeg)
                   /\ ~AngleWithin(point.theta4, q.theta4, TolDeg))

\* C10: the default mechanism evaluated at theta2 = -90.
C10_Witness ==
    /\ pc = "done"
    /\ params = DEFAULT_PARAMS
    /\ theta2Deg = -(90 * DS)
    /\ point.isValid
    /\ point.energy > 0

---------------------------------------------------------------------------
(* Properties of the stiffness and of the torque.                          *)

\* The stiffness returned for the crank angle theta2 and the Parameter Set p.
stiffnessAt(theta2, p) == calculateKinematics(theta2, p).prb.K

\* C11: the stiffness K returned in prb scales exactly: all else fixed,
\* doubling h multiplies K by 8 and doubling E multiplies K by 2; and K is the
\* same at every crank angle, in valid and invalid states.
C11_StiffnessScales ==
    pc = "done" =>
        /\ point.prb.K = stiffnessAt(theta2Deg + 180 * DS, params)
        /\ point.prb.K = stiffnessAt(params.theta20, params)
        /\ params.h = DEFAULT_PARAMS.h =>
              stiffnessAt(theta2Deg, [params EXCEPT !.h = 2 * params.h])
                = FracMul(point.prb.K, 8)
        /\ params.E = DEFAULT_PARAMS.E =>
              stiffnessAt(theta2Deg, [params EXCEPT !.E = 2 * params.E])
                = FracMul(point.prb.K, 2)

\* C11: an invalid state of a mechanism with the default section, whose
\* stiffness is that of the valid state half a turn away.
C11_Witness ==
    /\ pc = "done"
    /\ ~point.isValid
    /\ params.h = DEFAULT_PARAMS.h /\ params.E = DEFAULT_PARAMS.E
    /\ point.prb.K.num > 0
    /\ calculateKinematics(theta2Deg + 180 * DS, params).isValid

\* K * deltaTheta4 * [r2 sin(theta3 - theta2)] / [r4 sin(theta3 - theta4)] of
\* the evaluation in hand.
torqueFormula ==
    With(FMul(params.r2, Sin(FSub(loc.t3, loc.theta2Rad)), 1), LAMBDA num :
    With(FMul(point.prb.r4, Sin(FSub(loc.t3, loc.t4)), 1), LAMBDA den :
    With(KTimes(point.prb.K, loc.deltaTheta4, RS), LAMBDA kd :
      FMul(kd, FDiv(num, den, RS), RS))))

\* sin(theta3 - theta4) = 0.
ZeroDenominator == Sin(FSub(loc.t3, loc.t4)) = 0

\* d = r3 + r4 or d = |r3 - r4|, with d > 0.
Tangent ==
    With(crankToPivot, LAMBDA d :
    With(prbLength(params.L4), LAMBDA r4 :
      d > 0 /\ (d = params.r3 + r4 \/ d = Abs(params.r3 - r4))))

\* C12: the singularity of the kinematic coefficient is neither flagged nor
\* clamped: in every valid state torque is K * deltaTheta4 * [r2 sin(theta3 -
\* theta2)] / [r4 sin(theta3 - theta4)], a tangency configuration d = r3 + r4
\* or d = |r3 - r4| is a valid state, and where the denominator is zero the
\* torque is not replaced by a finite number.
C12_SingularityUnguarded ==
    /\ (pc = "done" /\ point.isValid) =>
          /\ point.torque = torqueFormula
          /\ ZeroDenominator => ~IsFinite(point.torque)
    /\ (pc = "done" /\ Tangent) => point.isValid

\* C12: the tangency d = |r3 - r4| reached at theta2 = 90, where the
\* denominator is zero and the torque is infinite.
C12_Witness ==
    /\ pc = "done"
    /\ point.isValid
    /\ Tangent
    /\ theta2Deg = 90 * DS
    /\ crankToPivot = Abs(params.r3 - prbLength(params.L4))
    /\ ZeroDenominator
    /\ point.torque \in {PInf, NInf}

---------------------------------------------------------------------------
(* Properties of getJointPositions.                                        *)

\* A0 = (0, 0), B0 = (r1, 0), |A - A0| = r2, |B - A| = r3, A recomputed from
\* theta2 and B from theta3, whatever theta4 is.
JointsPlaced ==
    /\ positions.A0 = <<0, 0>>
    /\ positions.B0 = <<params.r1, 0>>
    /\ Within(Hypot(positions.A[1], positions.A[2]), params.r2, TolLen)
    /\ Within(Hypot(FSub(positions.B[1], positions.A[1]),
                    FSub(positions.B[2], positions.A[2])), params.r3, TolLen)
    /\ positions.A = crankPin(point.theta2, params)
    /\ AngleWithin(point.theta3,
                   toDegrees(Atan2(FSub(positions.B[2], positions.A[2]),
                                   FSub(positions.B[1], positions.A[1]))),
                   TolDeg)
    /\ positions = getJointPositions([point EXCEPT !.theta4 = 0], params)

\* C13: for any valid state and the same Parameter Set, getJointPositions
\* returns A0 = (0, 0), B0 = (r1, 0), A with |A - A0| = r2 and B with
\* |B - A| = r3, A recomputed from theta2 and B from theta3 only.
C13_JointPositions == (pc = "drawn" /\ point.isValid) => JointsPlaced

\* The joints are placed in every valid state whose angles are numbers.
JointsWhenSolved == (pc = "drawn" /\ Solved) => JointsPlaced

---------------------------------------------------------------------------
(* Properties of the sweep simulationData.                                 *)

\* d > r3 + r4 or d < |r3 - r4| at the crank angle theta2.
infeasibleAt(theta2, p) ==
    With(crankPin(theta2, p), LAMBDA A :
    With(Hypot(FSub(A[1], p.r1), A[2]), LAMBDA d :
    With(prbLength(p.L4), LAMBDA r4 :
      FGt(d, p.r3 + r4) \/ FLt(d, Abs(p.r3 - r4)))))

\* The offsets t of the sweep, in 1/DS deg.
SweepOffsets == { t * SweepStep : t \in SweepFirst..SweepLast }

\* C14: simulationData holds, in increasing deltaTheta2 order, exactly the
\* records calculateKinematics(theta20 + t, params) for the integers t in
\* [-180, 180] whose isValid is true: no invalid point is ever included, no
\* valid point is dropped, there are at most 361 entries, and after any
\* parameter edit the data are those of the current params.
C14_SweepKeepsValidPoints ==
    /\ \A i \in 1..Len(simulationData) : simulationData[i].isValid
    /\ sweep.pc = "ready" =>
          /\ Len(simulationData) <= 361
          /\ \A i \in 1..Len(simulationData) :
                /\ simulationData[i].deltaTheta2 \in SweepOffsets
                /\ simulationData[i] =
                     calculateKinematics(
                         params.theta20 + simulationData[i].deltaTheta2,
                         params)
                /\ i > 1 => simulationData[i].deltaTheta2
                              > simulationData[i - 1].deltaTheta2
          /\ With({ simulationData[i].deltaTheta2 :
                      i \in 1..Len(simulationData) }, LAMBDA kept :
               \A dt \in SweepOffsets :
                   ~infeasibleAt(params.theta20 + dt, params) => dt \in kept)

\* C14: the sweep of an edited Parameter Set that assembles over part of the
\* crank circle only.
C14_Witness ==
    /\ sweep.pc = "ready"
    /\ params # DEFAULT_PARAMS
    /\ Len(simulationData) > 0
    /\ Len(simulationData) < 361

---------------------------------------------------------------------------
(* Properties of the parameter state.                                      *)

\* The keys of a MechanismParams.
ParamKeys == {"r1", "r2", "r3", "L4", "E", "b", "h", "theta20", "theta40"}

\* C15: in every state reached from DEFAULT_PARAMS by slider and material
\* edits, r1, r2, r3, L4 > 0, E, b, h > 0 and theta20, theta40 are finite; and
\* each edit replaces the Parameter Set by one that differs from the previous
\* one in the edited key only.
C15_ParamsStayWellFormed ==
    /\ [](/\ DOMAIN params = ParamKeys
          /\ \A k \in {"r1", "r2", "r3", "L4", "E", "b", "h"} :
                IsFinite(params[k]) /\ params[k] > 0
          /\ IsFinite(params.theta20) /\ IsFinite(params.theta40))
    /\ [][\E k \in ParamKeys :
            \A j \in ParamKeys \ {k} : params'[j] = params[j]]_vars

\* C15: after edits of several inputs, each at an end of its range.
C15_Witness ==
    /\ sweep.pc = "idle"
    /\ params.r1 = 1 * LS
    /\ params.r2 = 5 * LS
    /\ params.E = 2070
    /\ params.h = 1
    /\ params.theta20 = -(180 * DS)
    /\ params.theta40 = 0

---------------------------------------------------------------------------
(* Properties of the animation.                                            *)

\* C16: while animating, each frame replaces theta2 by theta2 + 1.2, or by
\* -180 when theta2 + 1.2 > 180; and after any sequence of frames, slider
\* moves, play/pause toggles and resets theta2 is within [-180, 180].
C16_AnimationStaysInRange ==
    /\ [](app.theta2 >= -(180 * DS) /\ app.theta2 <= 180 * DS)
    /\ [][AnimationFrame =>
            /\ app.isAnimating
            /\ app'.theta2 = IF app.theta2 + 120 > 180 * DS
                             THEN -(180 * DS)
                             ELSE app.theta2 + 120]_vars

\* C16: a frame that wrapped theta2 to -180.
C16_Witness ==
    /\ app.last = "frame"
    /\ app.isAnimating
    /\ app.theta2 = -(180 * DS)

\* C17: reset sets theta2 to params.theta20 and stops the animation; while the
\* animation is stopped no frame request is pending, and theta2 then changes
\* only through the slider or reset: no frame callback advances it after a
\* pause or a reset.
C17_StoppedMeansNoFrame ==
    /\ [][Reset => (app'.theta2 = params.theta20 /\ ~app'.isAnimating)]_vars
    /\ [](~app.isAnimating => app.scheduled = {})
    /\ [][(~app.isAnimating /\ app'.theta2 # app.theta2) =>
            app'.last \in {"slider", "reset"}]_vars

\* C17: a reset after frames have run, to an edited reference angle.
C17_Witness ==
    /\ app.last = "reset"
    /\ app.issued >= 2
    /\ ~app.isAnimating
    /\ app.scheduled = {}
    /\ app.theta2 = params.theta20
    /\ params.theta20 # DEFAULT_PARAMS.theta20

---------------------------------------------------------------------------
(* Finiteness of the solved values.                                        *)

\* C18: whenever calculateKinematics returns isValid = true, the solved
\* theta3, theta4 and the energy are finite numbers (never NaN): the law of
\* cosines quotient is never evaluated with d = 0 in an accepted state.
C18_ValidIsFinite ==
    (pc \in {"done", "drawn"} /\ point.isValid) =>
        /\ loc.dist # 0
        /\ IsFinite(point.theta3)
        /\ IsFinite(point.theta4)
        /\ IsFinite(point.energy)

\* C18: an accepted state with d = 0 (r1 = r2, theta2 = 0, r3 = r4) whose
\* solved values are NaN.
C18_AcceptedWithZeroDistance ==
    /\ pc = "done"
    /\ point.isValid
    /\ loc.dist = 0
    /\ IsNaN(point.theta3)
    /\ IsNaN(point.theta4)
    /\ IsNaN(point.energy)

=============================================================================
